---- MODULE Spec2Model ----
(***************************************************************************)
(* uio: a byte buffer (uio::streambuf) with a get cursor, a put cursor and *)
(* a pending-rewind mark, its error register (uio::streamerr) and the      *)
(* stream wrappers (uio::istream, uio::ostream) of src/uio.hpp.            *)
(*                                                                         *)
(* One streambuf object is modelled.  The stream wrappers act on the       *)
(* buffer they own; the transport subclass reaches the same buffer through *)
(* the streambuf operations, so the stream operations and the buffer       *)
(* operations are actions on the same object, next to the stream-level     *)
(* registers _oerror and _ierror.                                          *)
(***************************************************************************)
EXTENDS Integers, Sequences, FiniteSets, TLC

\* ------------------------------------------------------------------------
\* Bounds of the model
\* ------------------------------------------------------------------------
MaxCap == 2        \* largest capacity handed to setbuf
MaxLen == 2        \* longest request handed to a read or a write
MaxSent == 2 * MaxCap + 1   \* most bytes handed to the writes of one queue run
SizeBits == 4      \* modelled width of size_t (arithmetic is modulo 2^SizeBits)

Byte == {0, 1}     \* values of a char; 0 is the string terminator '\0'

NULL == "NULL"     \* the null pointer
ARRAY == "ARRAY"   \* the caller's byte array

RECURSIVE Pow2(_)
Pow2(n) == IF n = 0 THEN 1 ELSE 2 * Pow2(n - 1)

SizeMod == Pow2(SizeBits)

\* size_t arithmetic: unsigned, wraps around
Sub(a, b) == (a - b + SizeMod) % SizeMod
Add(a, b) == (a + b) % SizeMod

SeqsUpTo(n) == UNION {[1..k -> Byte] : k \in 0..n}

\* the elements s[1..n] of a sequence
Take(s, n) == SubSeq(s, 1, n)

\* ------------------------------------------------------------------------
\* uio::min
\* ------------------------------------------------------------------------
min(v1, v2) == IF v1 < v2 THEN v1 ELSE v2

\* ------------------------------------------------------------------------
\* uio::streamerr: the bitmap of error flags
\* ------------------------------------------------------------------------
RECURSIVE BitOr(_, _)
BitOr(a, b) ==
    IF a = 0 /\ b = 0 THEN 0
    ELSE (IF a % 2 = 1 \/ b % 2 = 1 THEN 1 ELSE 0) + 2 * BitOr(a \div 2, b \div 2)

\* streamerr(): memset(&_flags, 0, sizeof(_flags))
streamerr == [uninitialized |-> FALSE, overflow |-> FALSE, reserved |-> 0]

\* mutant: clear resets the two named flags and forgets the reserved bits
clear_named(e) == [e EXCEPT !.uninitialized = FALSE, !.overflow = FALSE]

\* streamerr::clear
clear(e) == [uninitialized |-> FALSE, overflow |-> FALSE, reserved |-> 0]

\* mutant: any looks at the two named flags only
any_named(e) == e.uninitialized \/ e.overflow

\* streamerr::any
any(e) == e.uninitialized \/ e.overflow \/ e.reserved # 0

\* mutant: operator|= assigns the other register
merge_assign(e, other) == other

\* streamerr::operator|=
merge(e, other) ==
    [uninitialized |-> e.uninitialized \/ other.uninitialized,
     overflow      |-> e.overflow \/ other.overflow,
     reserved      |-> BitOr(e.reserved, other.reserved)]

\* ------------------------------------------------------------------------
\* State
\* ------------------------------------------------------------------------
VARIABLES
    _capacity,  \* streambuf::_capacity
    _getpos,    \* streambuf::_getpos
    _putpos,    \* streambuf::_putpos
    _dump,      \* streambuf::_dump, the pending-rewind mark
    _buf,       \* streambuf::_buf: NULL or ARRAY
    mem,        \* the bytes of the caller's array
    _error,     \* streambuf::_error
    _oerror,    \* ostream::_oerror
    _ierror,    \* istream::_ierror
    fault,      \* the process died on an access through the null pointer
    op,         \* the last call that returned
    req,        \* the length it was asked to transfer
    ret,        \* the value it returned
    data,       \* the bytes handed in (writes) or copied out (reads)
    pre,        \* the cursors, mark and registers the call started from
    bound,      \* history: setbuf has been called
    filled,     \* history: a write left _putpos = _capacity, only reads since
    dumped,     \* history: dump() was called, only reads since
    pc,         \* scripts: position ("off" when no script runs)
    S,          \* scripts: the sequence to send (queue run: the bytes accepted)
    wi,         \* round-trip script: bytes of S handed to writes
    ri,         \* round-trip script: bytes asked back from reads
    got,        \* scripts: the bytes the reads returned
    full,       \* round-trip script: every call so far reported the full count
    refused     \* producer script: "pending" after a sputc that returned 0,
                \* "served" after the sputc that returned 1 next, else "no"

bufvars == <<_capacity, _getpos, _putpos, _dump, _buf, mem, _error>>
strvars == <<_oerror, _ierror>>
obsvars == <<op, req, ret, data, pre>>
histvars == <<bound, filled, dumped>>
scriptvars == <<pc, S, wi, ri, got, full, refused>>
vars == <<bufvars, strvars, fault, obsvars, histvars, scriptvars>>

\* in_avail: _putpos - _getpos
in_avail == Sub(_putpos, _getpos)

\* size: _putpos
size == _putpos

\* the calls that reset: purge and streamerr::clear
Resets == {"purge", "_oerror.clear"}

\* what a call records of the state it starts from; o is the call before it
\* when that was one of the resets
Snapshot == [g |-> _getpos, p |-> _putpos, d |-> _dump, f |-> filled,
             h |-> dumped, e |-> _error, oe |-> _oerror, ie |-> _ierror,
             o |-> IF op \in Resets THEN op ELSE "call"]

Returned(o, rq, rt, dt) ==
    /\ op' = o
    /\ req' = rq
    /\ ret' = rt
    /\ data' = dt
    /\ pre' = Snapshot
    /\ fault' = FALSE

\* The call dereferenced the null pointer and the process was terminated.
Faulted ==
    /\ fault' = TRUE
    /\ UNCHANGED <<bufvars, obsvars, histvars>>

\* mutant: the bytes are taken from the start of the array
Bytes_fromzero(from, n) == [i \in 1..n |-> mem[i - 1]]

\* bytes mem[from .. from+n-1] as a sequence
Bytes(from, n) == [i \in 1..n |-> mem[from + i - 1]]

\* mutant: memcpy(_buf, s, n), the offset _putpos forgotten
Stored_head(at, s, n) ==
    [i \in DOMAIN mem |-> IF i < n THEN s[i + 1] ELSE mem[i]]

\* mem after memcpy(_buf + at, s, n) into the caller's array
Stored(at, s, n) ==
    [i \in DOMAIN mem |-> IF i >= at /\ i < at + n THEN s[i - at + 1] ELSE mem[i]]


\* ------------------------------------------------------------------------
\* uio::streambuf
\* ------------------------------------------------------------------------

\* mutant: the constructor leaves the uninitialized flag clear
streambuf_unflagged ==
    /\ _capacity = 0
    /\ _getpos = 0
    /\ _putpos = 0
    /\ _dump = FALSE
    /\ _buf = NULL
    /\ _error = streamerr

\* streambuf(): the state after construction
streambuf ==
    /\ _capacity = 0
    /\ _getpos = 0
    /\ _putpos = 0
    /\ _dump = FALSE
    /\ _buf = NULL
    /\ _error = [streamerr EXCEPT !.uninitialized = TRUE]

\* mutant: a read that empties the queue does not set the mark
DumpAfterGet_never(g, p) == FALSE

\* sgetc, sgetn: _dump = (_getpos == _putpos)
DumpAfterGet(g, p) == g = p

\* mutant: the writes ignore the mark
Rewound_never(d, x) == x

\* sputc, sputn: "check for dump" -- a cursor after the pending rewind
Rewound(d, x) == IF d THEN 0 ELSE x

\* mutant: sgetn copies len bytes whatever is queued
GetCount_unbounded(g, p, len) == len

\* sgetn: n = min(_putpos - _getpos, len)
GetCount(g, p, len) == min(Sub(p, g), len)

\* mutant: sputn copies len bytes whatever room is left
PutCount_unbounded(cap, p, len) == len

\* sputn: n = min(_capacity - _putpos, len)
PutCount(cap, p, len) == min(Sub(cap, p), len)

\* mutant: sputc stores without looking at the room left
PutRefused_never(cap, p) == FALSE

\* sputc: _capacity - _putpos <= 0, "not possible"
PutRefused(cap, p) == Sub(cap, p) <= 0

\* mutant: the flag is cleared without looking at _buf
UninitFlag_never(b) == FALSE

\* purge, setbuf: _error._flags.uninitialized = (_buf == NULL)
UninitFlag(b) == b = NULL

\* mutant: sgetc rewinds both cursors itself when it takes the last byte
sgetc_eager(o) ==
    IF Sub(_putpos, _getpos) <= 0
    THEN /\ Returned(o, 1, 0, <<>>)
         /\ UNCHANGED <<bufvars, histvars>>
    ELSE \/ /\ _buf = NULL
            /\ Faulted
         \/ /\ \E c \in (IF _buf = NULL THEN Byte ELSE {mem[_getpos]}) :
                  Returned(o, 1, 1, <<c>>)
            /\ _getpos' = IF Add(_getpos, 1) = _putpos THEN 0 ELSE Add(_getpos, 1)
            /\ _putpos' = IF Add(_getpos, 1) = _putpos THEN 0 ELSE _putpos
            /\ _dump' = FALSE
            /\ UNCHANGED <<_capacity, _buf, mem, _error, histvars>>

\* sgetc(c), reported as call o
sgetc(o) ==
    IF Sub(_putpos, _getpos) <= 0
    THEN /\ Returned(o, 1, 0, <<>>)
         /\ UNCHANGED <<bufvars, histvars>>
    ELSE \/ /\ _buf = NULL          \* *c = *(NULL + _getpos): undefined
            /\ Faulted
         \/ /\ \E c \in (IF _buf = NULL THEN Byte ELSE {mem[_getpos]}) :
                  Returned(o, 1, 1, <<c>>)
            /\ _getpos' = Add(_getpos, 1)
            /\ _dump' = DumpAfterGet(_getpos', _putpos)
            /\ UNCHANGED <<_capacity, _putpos, _buf, mem, _error, histvars>>

\* mutant: sgetn advances the cursor and leaves the mark as it was
sgetn_keepmark(o, len) ==
    LET n == GetCount(_getpos, _putpos, len) IN
    \/ /\ _buf = NULL /\ n > 0
       /\ Faulted
    \/ /\ \E out \in (IF _buf = NULL THEN [1..n -> Byte] ELSE {Bytes(_getpos, n)}) :
             Returned(o, len, n, out)
       /\ _getpos' = Add(_getpos, n)
       /\ UNCHANGED <<_capacity, _putpos, _dump, _buf, mem, _error, histvars>>

\* sgetn(s, len), reported as call o
sgetn(o, len) ==
    LET n == GetCount(_getpos, _putpos, len) IN
    \/ /\ _buf = NULL /\ n > 0      \* memcpy(s, NULL + _getpos, n): undefined
       /\ Faulted
    \/ /\ \E out \in (IF _buf = NULL THEN [1..n -> Byte] ELSE {Bytes(_getpos, n)}) :
             Returned(o, len, n, out)
       /\ _getpos' = Add(_getpos, n)
       /\ _dump' = DumpAfterGet(_getpos', _putpos)
       /\ UNCHANGED <<_capacity, _putpos, _buf, mem, _error, histvars>>

\* mutant: sputc does not look at the mark
sputc_norewind(o, c) ==
    IF PutRefused(_capacity, _putpos)
    THEN /\ Returned(o, 1, 0, <<c>>)
         /\ filled' = (_putpos = _capacity)
         /\ dumped' = FALSE
         /\ UNCHANGED <<_capacity, _getpos, _putpos, _dump, _buf, mem, _error, bound>>
    ELSE \/ /\ _buf = NULL
            /\ Faulted
         \/ /\ Returned(o, 1, 1, <<c>>)
            /\ mem' = IF _buf = NULL THEN mem ELSE Stored(_putpos, <<c>>, 1)
            /\ _putpos' = Add(_putpos, 1)
            /\ filled' = (_putpos' = _capacity)
            /\ dumped' = FALSE
            /\ UNCHANGED <<_capacity, _getpos, _dump, _buf, _error, bound>>

\* sputc(c), reported as call o
sputc(o, c) ==
    LET p == Rewound(_dump, _putpos)
        g == Rewound(_dump, _getpos)
    IN
    IF PutRefused(_capacity, p)
    THEN /\ Returned(o, 1, 0, <<c>>)
         /\ _putpos' = p
         /\ _getpos' = g
         /\ _dump' = FALSE
         /\ filled' = (_putpos' = _capacity)
         /\ dumped' = FALSE
         /\ UNCHANGED <<_capacity, _buf, mem, _error, bound>>
    ELSE \/ /\ _buf = NULL          \* *(NULL + _putpos) = c: undefined
            /\ Faulted
         \/ /\ Returned(o, 1, 1, <<c>>)
            /\ mem' = IF _buf = NULL THEN mem ELSE Stored(p, <<c>>, 1)
            /\ _putpos' = Add(p, 1)
            /\ _getpos' = g
            /\ _dump' = FALSE
            /\ filled' = (_putpos' = _capacity)
            /\ dumped' = FALSE
            /\ UNCHANGED <<_capacity, _buf, _error, bound>>

\* mutant: the pending rewind of sputn resets the put cursor only
sputn_halfrewind(o, s) ==
    LET p == Rewound(_dump, _putpos)
        n == PutCount(_capacity, p, Len(s))
    IN
    \/ /\ _buf = NULL /\ n > 0
       /\ Faulted
    \/ /\ Returned(o, Len(s), n, s)
       /\ mem' = IF _buf = NULL THEN mem ELSE Stored(p, s, n)
       /\ _putpos' = Add(p, n)
       /\ _dump' = FALSE
       /\ filled' = (_putpos' = _capacity)
       /\ dumped' = FALSE
       /\ UNCHANGED <<_capacity, _getpos, _buf, _error, bound>>

\* sputn(s, len) with len = Len(s), reported as call o
sputn(o, s) ==
    LET p == Rewound(_dump, _putpos)
        g == Rewound(_dump, _getpos)
        n == PutCount(_capacity, p, Len(s))
    IN
    \/ /\ _buf = NULL /\ n > 0      \* memcpy(NULL + _putpos, s, n): undefined
       /\ Faulted
    \/ /\ Returned(o, Len(s), n, s)
       /\ mem' = IF _buf = NULL THEN mem ELSE Stored(p, s, n)
       /\ _putpos' = Add(p, n)
       /\ _getpos' = g
       /\ _dump' = FALSE
       /\ filled' = (_putpos' = _capacity)
       /\ dumped' = FALSE
       /\ UNCHANGED <<_capacity, _buf, _error, bound>>

\* mutant: purge resets the get cursor and leaves the put cursor
purge_getonly ==
    /\ Returned("purge", 0, Sub(_putpos, _getpos), <<>>)
    /\ _getpos' = 0
    /\ _error' = [clear(_error) EXCEPT !.uninitialized = UninitFlag(_buf)]
    /\ filled' = FALSE
    /\ dumped' = FALSE
    /\ UNCHANGED <<_capacity, _putpos, _dump, _buf, mem, bound>>

\* purge()
purge ==
    /\ Returned("purge", 0, Sub(_putpos, _getpos), <<>>)
    /\ _getpos' = 0
    /\ _putpos' = 0
    /\ _error' = [clear(_error) EXCEPT !.uninitialized = UninitFlag(_buf)]
    /\ filled' = FALSE
    /\ dumped' = FALSE
    /\ UNCHANGED <<_capacity, _dump, _buf, mem, bound>>

\* setbuf(buf, capacity)
setbuf(buf, capacity) ==
    /\ Returned("setbuf", capacity, 0, <<>>)
    /\ _buf' = buf
    /\ _capacity' = capacity
    /\ _getpos' = 0
    /\ _putpos' = 0
    /\ _dump' = FALSE
    /\ _error' = [_error EXCEPT !.uninitialized = UninitFlag(_buf')]
    /\ bound' = TRUE
    /\ filled' = FALSE
    /\ dumped' = FALSE
    /\ UNCHANGED mem

\* dump()
dump ==
    /\ Returned("dump", 0, 0, <<>>)
    /\ _dump' = TRUE
    /\ filled' = FALSE
    /\ dumped' = TRUE
    /\ UNCHANGED <<_capacity, _getpos, _putpos, _buf, mem, _error, bound>>


\* ------------------------------------------------------------------------
\* uio::ostream
\* ------------------------------------------------------------------------

\* strlen(s): the number of chars before the first '\0'
strlen(s) == (CHOOSE i \in 1..Len(s) : s[i] = 0 /\ \A j \in 1..(i - 1) : s[j] # 0) - 1

\* char arrays that hold a terminated string
CStrings == {s \in [1..(MaxLen + 1) -> Byte] : s[MaxLen + 1] = 0}

\* mutant: the else branch merges the buffer's flags but does not set overflow
Overflowed_mergeOnly(e, buferr) == merge(e, buferr)

\* the else branch of put, write and operator<<:
\* _oerror._flags.overflow = true; _oerror |= _obuf._error
Overflowed(e, buferr) == merge([e EXCEPT !.overflow = TRUE], buferr)

\* mutant: an incomplete call raises overflow and forgets the merge
Signalled_flagOnly(complete) ==
    _oerror' = IF fault' \/ complete THEN _oerror ELSE [_oerror EXCEPT !.overflow = TRUE]

\* the register of the stream after a call that was complete or not
Signalled(complete) ==
    _oerror' = IF fault' \/ complete THEN _oerror ELSE Overflowed(_oerror, _error')

\* ostream::put(c)
put(c) ==
    /\ sputc("put", c)
    /\ Signalled(ret' # 0)
    /\ UNCHANGED _ierror

\* ostream::write(s, n) with n = Len(s)
write(s) ==
    /\ sputn("write", s)
    /\ Signalled(Len(s) = ret')
    /\ UNCHANGED _ierror

\* ostream::operator<<(s)
insert(s) ==
    /\ sputn("operator<<", Take(s, strlen(s)))
    /\ Signalled(strlen(s) = ret')
    /\ UNCHANGED _ierror

\* ------------------------------------------------------------------------
\* uio::istream
\* ------------------------------------------------------------------------

\* a char of the destination that the call did not write
Untouched == -1

\* istream::operator>>(s): n = _ibuf.in_avail(); _ibuf.sgetn(s, n)
extract ==
    /\ sgetn("operator>>", in_avail)
    /\ UNCHANGED strvars

\* the destination s of the last operator>>(s), after *(s + n) = '\0':
\* the ret chars copied by sgetn, then untouched chars up to the terminator
\* at index n (the sequence counts from 1)
Destination ==
    [i \in 1..(req + 1) |->
        IF i <= ret THEN data[i] ELSE IF i = req + 1 THEN 0 ELSE Untouched]

\* istream::gcount()
gcount ==
    /\ Returned("gcount", 0, in_avail, <<>>)
    /\ UNCHANGED <<bufvars, histvars, strvars>>

\* istream::get(buf)
get(o) ==
    /\ sgetc(o)
    /\ UNCHANGED strvars

\* mutant: get(buf, buflen) raises overflow in _ierror and merges the
\* buffer's register when it copies fewer than buflen bytes
get_n_flagging(o, buflen) ==
    /\ sgetn(o, buflen)
    /\ _ierror' = IF fault' \/ ret' = buflen THEN _ierror
                  ELSE merge([_ierror EXCEPT !.overflow = TRUE], _error')
    /\ UNCHANGED _oerror

\* istream::get(buf, buflen)
get_n(o, buflen) ==
    /\ sgetn(o, buflen)
    /\ UNCHANGED strvars

\* ------------------------------------------------------------------------
\* The program: any sequence of calls on the buffer and on the streams
\* ------------------------------------------------------------------------
Init ==
    /\ streambuf
    /\ mem = [i \in 0..(MaxCap - 1) |-> 0]
    /\ _oerror = streamerr
    /\ _ierror = streamerr
    /\ fault = FALSE
    /\ bound = FALSE
    /\ filled = FALSE
    /\ dumped = FALSE
    /\ op = "streambuf" /\ req = 0 /\ ret = 0 /\ data = <<>>
    /\ pre = Snapshot
    /\ pc = "off" /\ S = <<>> /\ wi = 0 /\ ri = 0 /\ got = <<>> /\ full = TRUE /\ refused = "no"

Running == ~fault /\ pc = "off"

Setbuf ==
    /\ Running
    /\ \E b \in {NULL, ARRAY}, cap \in 0..MaxCap : setbuf(b, cap)
    /\ UNCHANGED <<strvars, scriptvars>>

Sgetc ==
    /\ Running
    /\ sgetc("sgetc")
    /\ UNCHANGED <<strvars, scriptvars>>

Sgetn ==
    /\ Running
    /\ \E len \in 0..MaxLen : sgetn("sgetn", len)
    /\ UNCHANGED <<strvars, scriptvars>>

Sputc ==
    /\ Running
    /\ \E c \in Byte : sputc("sputc", c)
    /\ UNCHANGED <<strvars, scriptvars>>

Sputn ==
    /\ Running
    /\ \E s \in SeqsUpTo(MaxLen) : sputn("sputn", s)
    /\ UNCHANGED <<strvars, scriptvars>>

Purge ==
    /\ Running
    /\ purge
    /\ UNCHANGED <<strvars, scriptvars>>

Dump ==
    /\ Running
    /\ dump
    /\ UNCHANGED <<strvars, scriptvars>>

Put ==
    /\ Running
    /\ \E c \in Byte : put(c)
    /\ UNCHANGED scriptvars

Write ==
    /\ Running
    /\ \E s \in SeqsUpTo(MaxLen) : write(s)
    /\ UNCHANGED scriptvars

Insert ==
    /\ Running
    /\ \E s \in CStrings : insert(s)
    /\ UNCHANGED scriptvars

Extract ==
    /\ Running
    /\ extract
    /\ UNCHANGED scriptvars

Gcount ==
    /\ Running
    /\ gcount
    /\ UNCHANGED scriptvars

Get ==
    /\ Running
    /\ get("get")
    /\ UNCHANGED scriptvars

GetN ==
    /\ Running
    /\ \E buflen \in 0..MaxLen : get_n("get_n", buflen)
    /\ UNCHANGED scriptvars

Next ==
    \/ Setbuf \/ Sgetc \/ Sgetn \/ Sputc \/ Sputn \/ Purge \/ Dump
    \/ Put \/ Write \/ Insert
    \/ Extract \/ Gcount \/ Get \/ GetN

Spec == Init /\ [][Next]_vars

\* ------------------------------------------------------------------------
\* The registers in the hands of the application.  _error and _oerror are
\* public members: the application raises flags in the buffer's register
\* (the reserved bits are its own error codes) with operator|= and
\* acknowledges the flags of the stream with _oerror.clear(); the buffer's
\* register is cleared through purge, which restores uninitialized.  The
\* calls on the buffer move one byte at a time here; they reach the same
\* cursors, marks and array contents as the calls that move many.
\* ------------------------------------------------------------------------

\* the registers the application merges into the buffer's
Raisable == {[streamerr EXCEPT !.overflow = TRUE], [streamerr EXCEPT !.reserved = 1]}

\* _error |= r
raise(r) ==
    /\ Returned("_error|=", 0, 0, <<>>)
    /\ _error' = merge(_error, r)
    /\ UNCHANGED <<_capacity, _getpos, _putpos, _dump, _buf, mem, histvars, strvars>>

\* _oerror.clear()
clear_oerror ==
    /\ Returned("_oerror.clear", 0, 0, <<>>)
    /\ _oerror' = clear(_oerror)
    /\ UNCHANGED <<bufvars, histvars, _ierror>>

Raise ==
    /\ Running
    /\ \E r \in Raisable : raise(r)
    /\ UNCHANGED scriptvars

Clear ==
    /\ Running
    /\ clear_oerror
    /\ UNCHANGED scriptvars

NextFlags ==
    \/ Setbuf \/ Sgetc \/ Sputc \/ Purge \/ Dump \/ Put \/ Get
    \/ Raise \/ Clear

SpecFlags == Init /\ [][NextFlags]_vars

\* ------------------------------------------------------------------------
\* The round trip: bind an array, write S, read Len(S) bytes back
\* ------------------------------------------------------------------------
InitRoundTrip ==
    /\ streambuf
    /\ mem \in [0..(MaxCap - 1) -> Byte]    \* the array holds anything
    /\ _oerror = streamerr
    /\ _ierror = streamerr
    /\ fault = FALSE
    /\ bound = FALSE
    /\ filled = FALSE
    /\ dumped = FALSE
    /\ op = "streambuf" /\ req = 0 /\ ret = 0 /\ data = <<>>
    /\ pre = Snapshot
    /\ pc = "bind" /\ S \in SeqsUpTo(MaxCap) /\ wi = 0 /\ ri = 0 /\ got = <<>>
    /\ full = TRUE /\ refused = "no"

\* binding non-null storage of a capacity that holds S
RT_Bind ==
    /\ pc = "bind"
    /\ \E cap \in Len(S)..MaxCap : setbuf(ARRAY, cap)
    /\ pc' = "write"
    /\ UNCHANGED <<strvars, refused, S, wi, ri, got, full>>

\* writing S with one sputn
RT_WriteMany ==
    /\ pc = "write" /\ wi = 0
    /\ sputn("sputn", S)
    /\ wi' = Len(S)
    /\ full' = (full /\ ret' = Len(S))
    /\ pc' = "read"
    /\ UNCHANGED <<strvars, refused, S, ri, got>>

\* writing S byte by byte with sputc
RT_WriteOne ==
    /\ pc = "write" /\ wi < Len(S)
    /\ sputc("sputc", S[wi + 1])
    /\ wi' = wi + 1
    /\ full' = (full /\ ret' = 1)
    /\ pc' = IF wi' = Len(S) THEN "read" ELSE "write"
    /\ UNCHANGED <<strvars, refused, S, ri, got>>

\* reading Len(S) bytes with one sgetn
RT_ReadMany ==
    /\ pc = "read" /\ ri = 0
    /\ sgetn("sgetn", Len(S))
    /\ ri' = Len(S)
    /\ got' = data'
    /\ full' = (full /\ ret' = Len(S))
    /\ pc' = "done"
    /\ UNCHANGED <<strvars, refused, S, wi>>

\* reading Len(S) bytes byte by byte with sgetc
RT_ReadOne ==
    /\ pc = "read" /\ ri < Len(S)
    /\ sgetc("sgetc")
    /\ ri' = ri + 1
    /\ got' = got \o data'
    /\ full' = (full /\ ret' = 1)
    /\ pc' = IF ri' = Len(S) THEN "done" ELSE "read"
    /\ UNCHANGED <<strvars, refused, S, wi>>

NextRoundTrip ==
    RT_Bind \/ RT_WriteMany \/ RT_WriteOne \/ RT_ReadMany \/ RT_ReadOne

SpecRoundTrip == InitRoundTrip /\ [][NextRoundTrip]_vars

\* ------------------------------------------------------------------------
\* The queue: an array is bound once, then writes and reads interleave in
\* any order, with no dump, purge or setbuf.  S collects the bytes the
\* writes accepted, got the bytes the reads returned.
\* ------------------------------------------------------------------------
InitFifo ==
    /\ streambuf
    /\ mem \in [0..(MaxCap - 1) -> Byte]    \* the array holds anything
    /\ _oerror = streamerr
    /\ _ierror = streamerr
    /\ fault = FALSE
    /\ bound = FALSE
    /\ filled = FALSE
    /\ dumped = FALSE
    /\ op = "streambuf" /\ req = 0 /\ ret = 0 /\ data = <<>>
    /\ pre = Snapshot
    /\ pc = "fifo_bind" /\ S = <<>> /\ wi = 0 /\ ri = 0 /\ got = <<>>
    /\ full = TRUE /\ refused = "no"

\* binding non-null storage, once
F_Bind ==
    /\ pc = "fifo_bind"
    /\ \E cap \in 0..MaxCap : setbuf(ARRAY, cap)
    /\ pc' = "fifo"
    /\ UNCHANGED <<strvars, refused, S, wi, ri, got, full>>

\* sputc(c): the byte counts as accepted when the call returns 1
F_WriteOne ==
    /\ pc = "fifo" /\ Len(S) < MaxSent
    /\ \E c \in Byte : sputc("sputc", c)
    /\ S' = S \o Take(data', ret')
    /\ UNCHANGED <<strvars, refused, pc, wi, ri, got, full>>

\* sputn(s, len): the first ret bytes of s count as accepted
F_WriteMany ==
    /\ pc = "fifo"
    /\ \E s \in SeqsUpTo(MaxLen) :
          /\ Len(S) + Len(s) <= MaxSent
          /\ sputn("sputn", s)
    /\ S' = S \o Take(data', ret')
    /\ UNCHANGED <<strvars, refused, pc, wi, ri, got, full>>

\* sgetc(c)
F_ReadOne ==
    /\ pc = "fifo"
    /\ sgetc("sgetc")
    /\ got' = got \o data'
    /\ UNCHANGED <<strvars, refused, pc, S, wi, ri, full>>

\* sgetn(s, len)
F_ReadMany ==
    /\ pc = "fifo"
    /\ \E len \in 0..MaxLen : sgetn("sgetn", len)
    /\ got' = got \o data'
    /\ UNCHANGED <<strvars, refused, pc, S, wi, ri, full>>

NextFifo ==
    F_Bind \/ F_WriteOne \/ F_WriteMany \/ F_ReadOne \/ F_ReadMany

SpecFifo == InitFifo /\ [][NextFifo]_vars

\* ------------------------------------------------------------------------
\* Producer and consumer: an array of capacity >= 1 is bound, then a
\* producer keeps calling sputc, on the buffer or through ostream::put, and
\* a consumer keeps calling sgetc, on the buffer or through istream::get,
\* while in_avail() > 0, each scheduled again and again.
\* ------------------------------------------------------------------------
InitLive ==
    /\ streambuf
    /\ mem \in [0..(MaxCap - 1) -> Byte]    \* the array holds anything
    /\ _oerror = streamerr
    /\ _ierror = streamerr
    /\ fault = FALSE
    /\ bound = FALSE
    /\ filled = FALSE
    /\ dumped = FALSE
    /\ op = "streambuf" /\ req = 0 /\ ret = 0 /\ data = <<>>
    /\ pre = Snapshot
    /\ pc = "live_bind" /\ S = <<>> /\ wi = 0 /\ ri = 0 /\ got = <<>>
    /\ full = TRUE /\ refused = "no"

\* binding non-null storage of capacity >= 1
L_Bind ==
    /\ pc = "live_bind"
    /\ \E cap \in 1..MaxCap : setbuf(ARRAY, cap)
    /\ pc' = "live"
    /\ UNCHANGED <<strvars, refused, S, wi, ri, got, full>>

\* the producer: sputc(c) or put(c), again whatever the last one returned
Producer ==
    /\ pc = "live"
    /\ \E c \in Byte :
          \/ sputc("sputc", c) /\ UNCHANGED strvars
          \/ put(c)
    /\ refused' = IF ret' = 0 THEN "pending"
                  ELSE IF refused = "pending" THEN "served" ELSE "no"
    /\ UNCHANGED <<pc, S, wi, ri, got, full>>

\* the consumer: sgetc(c) or get(c) while in_avail() > 0
Consumer ==
    /\ pc = "live"
    /\ in_avail > 0
    /\ (sgetc("sgetc") /\ UNCHANGED strvars) \/ get("get")
    /\ UNCHANGED scriptvars

NextLive == L_Bind \/ Producer \/ Consumer

SpecLive ==
    /\ InitLive /\ [][NextLive]_vars
    /\ WF_vars(L_Bind) /\ WF_vars(Producer) /\ WF_vars(Consumer)

\* ------------------------------------------------------------------------
\* Types
\* ------------------------------------------------------------------------
Registers == [uninitialized : BOOLEAN, overflow : BOOLEAN, reserved : 0..15]

TypeOK ==
    /\ _capacity \in 0..MaxCap
    /\ _getpos \in 0..(SizeMod - 1)
    /\ _putpos \in 0..(SizeMod - 1)
    /\ _dump \in BOOLEAN
    /\ _buf \in {NULL, ARRAY}
    /\ mem \in [0..(MaxCap - 1) -> Byte]
    /\ _error \in Registers /\ _oerror \in Registers /\ _ierror \in Registers
    /\ fault \in BOOLEAN
    /\ req \in 0..MaxCap \cup 0..MaxLen /\ ret \in 0..(SizeMod - 1)
    /\ data \in SeqsUpTo(MaxLen)
    /\ bound \in BOOLEAN /\ filled \in BOOLEAN /\ dumped \in BOOLEAN

\* ------------------------------------------------------------------------
\* streamerr on its own: two registers with any flags, and the calls of the
\* class made on one of them (the other is the argument of operator|=)
\* ------------------------------------------------------------------------
InitRegister ==
    /\ _capacity = 0 /\ _getpos = 0 /\ _putpos = 0 /\ _dump = FALSE /\ _buf = NULL
    /\ mem = [i \in 0..(MaxCap - 1) |-> 0]
    /\ _error \in Registers
    /\ _oerror \in Registers
    /\ _ierror = streamerr
    /\ fault = FALSE
    /\ bound = FALSE
    /\ filled = FALSE
    /\ dumped = FALSE
    /\ op = "streamerr" /\ req = 0 /\ ret = 0 /\ data = <<>>
    /\ pre = Snapshot
    /\ pc = "reg" /\ S = <<>> /\ wi = 0 /\ ri = 0 /\ got = <<>> /\ full = TRUE /\ refused = "no"

\* _oerror |= _error
R_Merge ==
    /\ pc = "reg"
    /\ Returned("operator|=", 0, 0, <<>>)
    /\ _oerror' = merge(_oerror, _error)
    /\ UNCHANGED <<bufvars, histvars, _ierror, scriptvars>>

\* _oerror.any(), the bool returned as 0 or 1
R_Any ==
    /\ pc = "reg"
    /\ Returned("any", 0, IF any(_oerror) THEN 1 ELSE 0, <<>>)
    /\ UNCHANGED <<bufvars, histvars, strvars, scriptvars>>

\* _oerror.clear()
R_Clear ==
    /\ pc = "reg"
    /\ clear_oerror
    /\ UNCHANGED scriptvars

NextRegister == R_Merge \/ R_Any \/ R_Clear

SpecRegister == InitRegister /\ [][NextRegister]_vars


\* ========================================================================
\* Properties
\* ========================================================================
BufferReads == {"sgetc", "sgetn"}
BufferWrites == {"sputc", "sputn"}
StreamWrites == {"put", "write", "operator<<"}

\* what in_avail() was when the last call started
PreAvail == pre.p - pre.g

\* C1: in every reachable state 0 <= _getpos <= _putpos <= _capacity, so the
\* unsigned differences _putpos - _getpos and _capacity - _putpos are the
\* true differences (no wrap-around).
C1_CursorOrder ==
    /\ 0 <= _getpos /\ _getpos <= _putpos /\ _putpos <= _capacity
    /\ Sub(_putpos, _getpos) = _putpos - _getpos
    /\ Sub(_capacity, _putpos) = _capacity - _putpos

\* a partly read, full buffer
C1_Witness == _buf = ARRAY /\ 0 < _getpos /\ _getpos < _putpos /\ _putpos = _capacity

\* C2: after binding an array, writing S (sputn, or sputc byte by byte) and
\* reading Len(S) bytes (sgetn, or sgetc byte by byte), the bytes read are S
\* in order and every call reported the full count.
C2_RoundTrip == pc = "done" => (got = S /\ full)

\* a round trip of a sequence that fills the capacity with differing bytes
C2_Witness ==
    /\ pc = "done" /\ Len(S) = MaxCap /\ _capacity = MaxCap
    /\ S[1] # S[2] /\ got = S

\* C3 as stated, for a buffer bound to an array: a sputn of
\* req <= _capacity - _putpos bytes (cursor taken before the call) returns req
\* and in_avail() grows by req.
C3_Original ==
    (_buf = ARRAY /\ op = "sputn" /\ req <= _capacity - pre.p) =>
        (ret = req /\ in_avail = PreAvail + req)

\* C3 amended: such a sputn returns req; in_avail() grows by req unless the
\* pending-rewind mark was set when the call started, in which case the
\* unread bytes are dropped and in_avail() is req after the call.
C3_WriteFits ==
    (op = "sputn" /\ req <= _capacity - pre.p) =>
        /\ ret = req
        /\ in_avail = (IF pre.d THEN req ELSE PreAvail + req)

\* a fitting sputn that started with the mark set and unread bytes queued
C3_Witness ==
    /\ _buf = ARRAY /\ op = "sputn" /\ pre.d /\ PreAvail > 0
    /\ req > 0 /\ req <= _capacity - pre.p /\ ret = req

\* C4: sgetn(s, len) returns min(in_avail(), len) and advances _getpos by
\* that amount; with len >= in_avail() it returns the prior in_avail() and
\* in_avail() is 0 afterwards.
C4_ReadMany ==
    op = "sgetn" =>
        /\ ret = (IF PreAvail < req THEN PreAvail ELSE req)
        /\ _getpos = pre.g + ret
        /\ (req >= PreAvail => (ret = PreAvail /\ in_avail = 0))

\* a sgetn that asked for more than was queued
C4_Witness ==
    /\ _buf = ARRAY /\ op = "sgetn" /\ PreAvail > 0 /\ req > PreAvail
    /\ ret = PreAvail /\ pre.g > 0

\* C5: once a write left _putpos = _capacity and reads alone then emptied
\* the queue, the next sputn of len bytes returns min(_capacity, len).
C5_LazyRewind ==
    (op = "sputn" /\ pre.f /\ PreAvail = 0) =>
        ret = (IF _capacity < req THEN _capacity ELSE req)

\* a filled and drained buffer took a write of its whole capacity
C5_Witness ==
    /\ _buf = ARRAY /\ op = "sputn" /\ pre.f /\ PreAvail = 0
    /\ pre.p = _capacity /\ _capacity = MaxCap /\ ret = _capacity


\* the room a write that started from the recorded state had, with _putpos
\* as it was when the call started
RoomAtCall == _capacity - pre.p

\* the index the first byte of that write went to, and the room it had, once
\* the pending rewind had been carried out
PutAt == IF pre.d THEN 0 ELSE pre.p
RoomAfterRewind == _capacity - PutAt

\* C6 as stated, for a buffer bound to an array: a put / write / operator<<
\* asking for more than _capacity - _putpos bytes (cursor taken before the
\* call) stores exactly the leading _capacity - _putpos bytes and leaves the
\* overflow flag of _oerror set; one that fits leaves _oerror unchanged.
C6_Original ==
    (_buf = ARRAY /\ op \in StreamWrites) =>
        IF req > RoomAtCall
        THEN /\ ret = RoomAtCall
             /\ _putpos = pre.p + RoomAtCall
             /\ (_buf = ARRAY => Bytes(pre.p, RoomAtCall) = Take(data, RoomAtCall))
             /\ _oerror.overflow
        ELSE _oerror = pre.oe

\* C6 amended: the room is counted after the pending rewind (it is _capacity
\* when the mark was set, _capacity - _putpos otherwise).  A put / write /
\* operator<< asking for more than that room accepts exactly the leading
\* room bytes (into an array: stored in order from the write position) and
\* leaves the overflow flag of _oerror set; one that fits is accepted whole
\* and leaves _oerror unchanged.
C6_OverflowSignal ==
    op \in StreamWrites =>
        IF req > RoomAfterRewind
        THEN /\ ret = RoomAfterRewind
             /\ _putpos = _capacity
             /\ (_buf = ARRAY =>
                    Bytes(PutAt, RoomAfterRewind) = Take(data, RoomAfterRewind))
             /\ _oerror.overflow
        ELSE /\ ret = req
             /\ _putpos = PutAt + req
             /\ (_buf = ARRAY => Bytes(PutAt, req) = data)
             /\ _oerror = pre.oe

\* capacity + 1 bytes were written through the stream into a drained array
\* whose put cursor stood at the capacity: capacity bytes went in, overflow
\* was raised for the first time
C6_Witness ==
    /\ op = "write" /\ _buf = ARRAY /\ _capacity > 0
    /\ pre.d /\ pre.p = _capacity
    /\ req = _capacity + 1 /\ ret = _capacity
    /\ ~pre.oe.overflow /\ _oerror.overflow

\* C7: on a buffer that was never bound sgetc, sgetn, sputc and sputn return 0
\* and leave the uninitialized flag of _error set; setbuf with an array
\* clears the flag.
C7_Unbound ==
    /\ (~bound /\ op \in BufferReads \cup BufferWrites) =>
            (ret = 0 /\ _error.uninitialized)
    /\ (op = "setbuf" /\ _buf = ARRAY) => ~_error.uninitialized

\* a write of MaxLen bytes into a buffer that was never bound
C7_Witness ==
    /\ ~bound /\ op = "sputn" /\ req = MaxLen
    /\ ret = 0 /\ _error.uninitialized

\* C8: while _buf is null -- also after setbuf(NULL, capacity > 0) -- sputc
\* and sputn return 0 and leave both cursors where they were, and sgetc and
\* sgetn return 0.
C8_NullStorageNoOp ==
    _buf = NULL =>
        /\ op \in BufferWrites => (ret = 0 /\ _getpos = pre.g /\ _putpos = pre.p)
        /\ op \in BufferReads => ret = 0

\* C9: _buf = NULL implies that the uninitialized flag of _error is set.
C9_NullIsUninitialized == _buf = NULL => _error.uninitialized

\* purge ran on a buffer bound to the null pointer
C9_Witness ==
    /\ op = "purge" /\ bound /\ _buf = NULL /\ _capacity > 0
    /\ _error.uninitialized

\* C10 as stated, for a buffer bound to an array: a sputc / sputn that
\* starts with _putpos = _capacity returns 0 and leaves both cursors unchanged.
C10_Original ==
    (_buf = ARRAY /\ op \in BufferWrites /\ pre.p = _capacity) =>
        (ret = 0 /\ _getpos = pre.g /\ _putpos = pre.p)

\* C10 amended: a sputc / sputn that starts with _putpos = _capacity and
\* with the pending-rewind mark clear returns 0 and changes neither cursor
\* nor the stored bytes.
C10_FullNoOp ==
    [][(~fault' /\ op' \in BufferWrites /\ _putpos = _capacity /\ ~_dump) =>
          (ret' = 0 /\ _getpos' = _getpos /\ _putpos' = _putpos /\ mem' = mem)]_vars

\* a write was refused by a full array that still held unread bytes
C10_Witness ==
    /\ op \in BufferWrites /\ _buf = ARRAY /\ _capacity = MaxCap
    /\ pre.p = _capacity /\ ~pre.d /\ PreAvail > 0
    /\ req > 0 /\ ret = 0

\* C11: setbuf leaves _getpos = _putpos = 0 (in_avail() = 0), sets the
\* uninitialized flag of _error exactly when buf is null, and leaves every
\* other flag of _error clear.
C11_BindResets ==
    op = "setbuf" =>
        /\ _getpos = 0 /\ _putpos = 0 /\ in_avail = 0
        /\ _error.uninitialized <=> (_buf = NULL)
        /\ ~_error.overflow /\ _error.reserved = 0

\* C12: purge returns what in_avail() was before the call, leaves
\* _getpos = _putpos = 0 and leaves _error with every flag clear except
\* uninitialized, which is set exactly when _buf is null.
C12_Reset ==
    op = "purge" =>
        /\ ret = pre.p - pre.g
        /\ _getpos = 0 /\ _putpos = 0
        /\ _error.uninitialized <=> (_buf = NULL)
        /\ ~_error.overflow /\ _error.reserved = 0

\* purge dropped unread bytes and cleared raised flags of a bound buffer
C12_Witness ==
    /\ op = "purge" /\ _buf = ARRAY /\ ret > 0 /\ pre.g > 0
    /\ pre.e.overflow /\ pre.e.reserved # 0

\* C13: a purge that follows a purge changes nothing of the buffer (cursors,
\* mark, register, storage) and returns 0; a clear() that follows a clear()
\* of the register leaves the register as it was; after any purge
\* in_avail() = 0.
C13_Idempotent ==
    [][~fault' =>
        /\ (op = "purge" /\ op' = "purge") => (bufvars' = bufvars /\ ret' = 0)
        /\ (op = "_oerror.clear" /\ op' = "_oerror.clear") => _oerror' = _oerror
        /\ op' = "purge" => in_avail' = 0]_vars

\* a second purge in a row on a bound buffer: nothing left to drop or clear
C13_Witness ==
    /\ op = "purge" /\ pre.o = "purge" /\ ret = 0
    /\ _getpos = 0 /\ _putpos = 0 /\ _error = pre.e /\ _buf = ARRAY

\* C14: after dump(), whatever reads are made in between, the next sputc or
\* sputn starts by setting both cursors to zero, so the bytes it stores begin
\* at position 0 (on a bound buffer: _getpos = 0 and _putpos = the count it
\* returns).
C14_DumpRewinds ==
    (op \in {"sputc", "sputn"} /\ _buf = ARRAY /\ pre.h) =>
        (_getpos = 0 /\ _putpos = ret)

\* the calls that read: sgetc, sgetn and the stream calls built on them
Reads == {"sgetc", "sgetn", "get", "get_n", "operator>>"}

\* the calls that may move a cursor back to zero
Rewinders == {"sputc", "sputn", "put", "write", "operator<<", "purge", "setbuf"}

\* C15: a read, also one that takes the last unread byte, changes neither
\* _putpos (size()), the stored bytes, _capacity nor _error, and moves
\* _getpos forward only; a cursor goes back only in a write, a purge or a
\* setbuf.
C15_ReadsKeepContents ==
    [][~fault' =>
        /\ op' \in Reads =>
              /\ _putpos' = _putpos /\ mem' = mem /\ _capacity' = _capacity
              /\ _error' = _error /\ _getpos' >= _getpos
        /\ (_getpos' < _getpos \/ _putpos' < _putpos) => op' \in Rewinders]_vars

\* a read took the last unread byte of a bound buffer: the bytes are still
\* counted by size() and the rewind is only marked
C15_Witness ==
    /\ op \in Reads /\ _buf = ARRAY /\ ret > 0
    /\ _getpos = _putpos /\ _putpos = pre.p /\ _putpos > 0 /\ _dump

\* the calls that move bytes, on the buffer or through a stream
Transfers == Reads \cup {"sputc", "sputn", "put", "write", "operator<<"}

\* the calls that may clear a flag
Clearers == {"purge", "setbuf", "_oerror.clear"}

\* every flag set in register a is set in register b
FlagsKept(a, b) ==
    /\ a.uninitialized => b.uninitialized
    /\ a.overflow => b.overflow
    /\ \A k \in 0..3 : ((a.reserved \div (2 ^ k)) % 2 = 1) => ((b.reserved \div (2 ^ k)) % 2 = 1)

\* C16: no read or write call, on the buffer or through a stream, takes a
\* set flag of _error, _oerror or _ierror back to clear; a step in which a
\* flag goes from set to clear is a clear(), a purge or a setbuf.
C16_Sticky ==
    [][~fault' =>
        /\ op' \in Transfers =>
              /\ FlagsKept(_error, _error')
              /\ FlagsKept(_oerror, _oerror')
              /\ FlagsKept(_ierror, _ierror')
        /\ ~(FlagsKept(_error, _error') /\ FlagsKept(_oerror, _oerror')
                /\ FlagsKept(_ierror, _ierror')) => op' \in Clearers]_vars

\* a stream write that was complete, made with flags standing in the
\* stream's register from an earlier incomplete one: they are still set
C16_Witness ==
    /\ op \in {"put", "write", "operator<<"} /\ _buf = ARRAY
    /\ ret = req /\ ret > 0
    /\ pre.oe.overflow /\ pre.oe.uninitialized
    /\ _oerror.overflow /\ _oerror.uninitialized /\ ~_error.uninitialized

\* C17 as stated: a get through the stream that returns fewer bytes than it
\* was asked for (get(buf, buflen) with buflen > gcount(), get(buf) on an
\* empty stream) leaves a flag set in _ierror.
C17_Original ==
    (op \in {"get", "get_n"} /\ _buf = ARRAY /\ ret < req) =>
        (_ierror.uninitialized \/ _ierror.overflow \/ _ierror.reserved # 0)

\* C17, amended: a get through the stream that cannot be satisfied in full is
\* reported by the count alone: it returns the smaller of gcount() before
\* the call and the length asked for (get(buf) on an empty stream returns
\* 0), and _ierror is left as it was.
C17_ShortGet ==
    op \in {"get", "get_n"} =>
        /\ ret = (IF pre.p - pre.g < req THEN pre.p - pre.g ELSE req)
        /\ _ierror = pre.ie

\* get(buf, buflen) asked for more than was queued and returned the bytes
\* that were there; no flag stands in the stream's register
C17_Witness ==
    /\ op = "get_n" /\ _buf = ARRAY /\ 0 < ret /\ ret < req
    /\ ~_ierror.overflow /\ ~_ierror.uninitialized /\ _ierror.reserved = 0

\* C18: after a put, write or operator<< that stored fewer bytes than asked,
\* every flag set in _error is set in _oerror; when _buf is null both
\* overflow and uninitialized are set in _oerror; _error is as it was before
\* the call.
C18_MergeOnIncomplete ==
    (op \in {"put", "write", "operator<<"} /\ ret < req) =>
        /\ _error.uninitialized => _oerror.uninitialized
        /\ _error.overflow => _oerror.overflow
        /\ \A k \in 0..3 : ((_error.reserved \div (2 ^ k)) % 2 = 1)
                                => ((_oerror.reserved \div (2 ^ k)) % 2 = 1)
        /\ _buf = NULL => (_oerror.overflow /\ _oerror.uninitialized)
        /\ _error = pre.e

\* a put through a stream whose buffer was never bound: nothing stored, both
\* flags newly set in the stream's register, the buffer's register untouched
C18_Witness ==
    /\ op = "put" /\ ~bound /\ _buf = NULL /\ ret = 0
    /\ ~pre.oe.overflow /\ ~pre.oe.uninitialized
    /\ _oerror.overflow /\ _oerror.uninitialized
    /\ _error.uninitialized /\ _error = pre.e

\* C19: operator|= leaves the register with exactly the flags that were set
\* in it or in the other register, and leaves the other register as it was;
\* any() returns true exactly when a flag is set; any() right after clear()
\* returns false.
C19_Register ==
    /\ op = "operator|=" =>
          /\ _oerror.uninitialized <=> (pre.oe.uninitialized \/ _error.uninitialized)
          /\ _oerror.overflow <=> (pre.oe.overflow \/ _error.overflow)
          /\ _oerror.reserved \in 0..15
          /\ \A k \in 0..3 :
                ((_oerror.reserved \div (2 ^ k)) % 2 = 1) <=>
                    \/ (pre.oe.reserved \div (2 ^ k)) % 2 = 1
                    \/ (_error.reserved \div (2 ^ k)) % 2 = 1
          /\ _error = pre.e
    /\ op = "any" =>
          /\ ret = 1 <=> (_oerror.uninitialized \/ _oerror.overflow \/ _oerror.reserved # 0)
          /\ ret \in {0, 1}
          /\ pre.o = "_oerror.clear" => ret = 0
    /\ op = "_oerror.clear" =>
          (~_oerror.uninitialized /\ ~_oerror.overflow /\ _oerror.reserved = 0)

\* a merge of two registers that each hold flags the other lacks
C19_Witness ==
    /\ op = "operator|="
    /\ pre.oe = [uninitialized |-> FALSE, overflow |-> TRUE, reserved |-> 5]
    /\ _error = [uninitialized |-> TRUE, overflow |-> FALSE, reserved |-> 3]
    /\ _oerror = [uninitialized |-> TRUE, overflow |-> TRUE, reserved |-> 7]

\* C20: operator>> called with n unread bytes (n = gcount()) copies exactly
\* those n bytes, in queue order, to s[0..n-1], writes the terminator at
\* s[n], leaves gcount() = 0 and does not set overflow in _ierror.
C20_ExtractLine ==
    op = "operator>>" =>
        /\ req = pre.p - pre.g /\ ret = req
        /\ Len(Destination) = req + 1
        /\ Destination[req + 1] = 0
        /\ _buf = ARRAY =>
              \A i \in 1..req : Destination[i] = mem[pre.g + i - 1]
        /\ _putpos - _getpos = 0
        /\ _ierror.overflow => pre.ie.overflow

\* operator>> took two different bytes out of a bound buffer, in order
C20_Witness ==
    /\ op = "operator>>" /\ _buf = ARRAY /\ ret = 2
    /\ data[1] # data[2]
    /\ Destination = <<mem[pre.g], mem[pre.g + 1], 0>>
    /\ ~_ierror.overflow

\* C21: on a buffer bound once to an array, under any interleaving of sputc,
\* sputn, sgetc and sgetn with no dump, purge or setbuf, the bytes the reads
\* returned, in order, are a prefix of the bytes the writes accepted, in
\* order, and in_avail() is the number accepted minus the number read.
C21_Fifo ==
    pc = "fifo" =>
        /\ Len(got) <= Len(S)
        /\ \A i \in 1..Len(got) : got[i] = S[i]
        /\ _putpos - _getpos = Len(S) - Len(got)

\* more than twice the capacity went through an array of the largest
\* capacity and came out whole: the cursors were rewound at least twice
C21_Witness ==
    /\ pc = "fifo" /\ _capacity = MaxCap
    /\ Len(S) > 2 * _capacity /\ got = S
    /\ \E i \in 1..(Len(S) - 1) : S[i] # S[i + 1]

\* C22: in every reachable state _getpos = _putpos implies that _dump is set
\* or both cursors are zero; a sputn of len bytes that starts with
\* in_avail() = 0 returns min(_capacity, len).
C22_EmptyRewinds ==
    /\ _getpos = _putpos => (_dump \/ (_getpos = 0 /\ _putpos = 0))
    /\ (op = "sputn" /\ pre.g = pre.p) =>
          ret = (IF _capacity < req THEN _capacity ELSE req)

\* a queue emptied by reads before the array was full, cursors in the
\* middle of the array: the next sputn filled the whole capacity
C22_Witness ==
    /\ op = "sputn" /\ _buf = ARRAY
    /\ pre.g = pre.p /\ 0 < pre.p /\ pre.p < _capacity /\ pre.d
    /\ req >= _capacity /\ ret = _capacity /\ ~_dump

\* C23: with an array of capacity >= 1 bound, a producer that keeps calling
\* sputc (or put) and a consumer that keeps calling sgetc (or get) while
\* in_avail() > 0, both weakly fair, every write of one byte that returned 0
\* is eventually followed by one that returns 1.
C23_NeverFullForever ==
    (pc = "live" /\ op \in {"sputc", "put"} /\ ret = 0)
        ~> (op \in {"sputc", "put"} /\ ret = 1)

\* a sputc was refused by the full array of the largest capacity, the
\* consumer emptied the queue, and the next sputc was accepted at index 0
C23_Witness ==
    /\ pc = "live" /\ refused = "served" /\ _capacity = MaxCap
    /\ op = "sputc" /\ ret = 1 /\ pre.d /\ pre.p = _capacity /\ _putpos = 1

====
